---- MODULE Spec2Model ----
(***************************************************************************)
(* A model of the DiscordTransport adapter of electron-log-discord         *)
(* (src/src/discord-transport.js, the class at lines 163-337): its         *)
(* construction, the transport handle and its level, payload building,     *)
(* the asynchronous delivery and the failure reporting, together with the  *)
(* part of the electron-log host the adapter talks to (the transport       *)
(* registry, the level gate, logMessageWithTransports).                    *)
(*                                                                         *)
(* JavaScript values are modelled as follows: an option value or a level   *)
(* is a string (Undefined for an absent one); a value that ends up in a    *)
(* payload or in a record's data is a record tagged with its type; an      *)
(* Error keeps its message as a sequence of text pieces; a function object *)
(* (a transport) is a record naming what it is bound to.  The host is not  *)
(* part of the repository: it is taken to invoke each function it is       *)
(* handed once and never to raise of its own.                              *)
(***************************************************************************)
EXTENDS Integers, Sequences, FiniteSets, TLC

\* ------------------------------------------------------------- bounds

\* Deliveries that may be in flight at once.
MaxInflight == 2

\* ------------------------------------------------------------- values

\* Option values and levels are strings; Undefined stands for an absent one.
Undefined == "undefined"

\* Values that end up in a payload or a record's data are tagged.
Undef == [t |-> "undefined"]
Null == [t |-> "null"]
Str(s) == [t |-> "string", v |-> s]
Num(n) == [t |-> "number", v |-> n]
DateObj(iso) == [t |-> "Date", v |-> iso]
\* new Error(message): the message is kept as a sequence of text pieces.
Err(message) == [t |-> "Error", message |-> message]

Adapters == {"a1", "a2"}

\* The endpoint each adapter is given when it is given one.
Webhook(a) == IF a = "a1" THEN "https://x/y" ELSE "https://x/z"

\* JavaScript truthiness of an option value (a string or absent).
Truthy(v) == v \notin {Undefined, ""}

\* v ?? d, for an option value
Coalesce(v, d) == IF v = Undefined THEN d ELSE v

\* v ?? null, for an option value that goes into the payload
OrNull(v) == IF v = Undefined THEN Null ELSE Str(v)

\* The levels of the host, most severe first.
LevelOrder == <<"error", "warn", "info", "verbose", "debug", "silly">>
Levels == {LevelOrder[i] : i \in 1..Len(LevelOrder)}

\* this.colors
colors ==
  [error |-> 16007990, warn |-> 16761095, info |-> 2201331,
   verbose |-> 10233776, debug |-> 5025616, silly |-> 6323595,
   log |-> 3355443]

\* Transport functions.  The host's own transports are opaque functions.
ConsoleT == [kind |-> "peer", of |-> "console"]
CustomT == [kind |-> "peer", of |-> "custom"]
PeerHandles == {ConsoleT, CustomT}

\* ------------------------------------------------------------- state

VARIABLES
  adapter,     \* adapter[a]: the fields of instance a, or NoAdapter
  options,     \* options[a]: the options instance a was constructed with
  hostMulti,   \* the host exposes logMessageWithTransports
  registry,    \* host.transports: a sequence of [key, fn], in insertion order
  inflight,    \* the pending network requests, oldest first
  obtained,    \* obtained[a]: the level a had when getFactory was last called
  ev           \* what the last operation did, as its caller can observe it

vars == <<adapter, options, hostMulti, registry, inflight, obtained, ev>>

NoAdapter == [exists |-> FALSE]

\* F applied to the value of v, with v evaluated once.
Bind(v, F(_)) == CHOOSE x \in {F(r) : r \in {v}} : TRUE

\* ------------------------------------------------------------- registry

\* host.transports[key]
RegGet(reg, key) ==
  IF \E i \in 1..Len(reg) : reg[i].key = key
  THEN (CHOOSE e \in {reg[i] : i \in 1..Len(reg)} : e.key = key).fn
  ELSE Undef

\* host.transports[key] = fn: an existing key keeps its place, a new one
\* is appended (the enumeration order of a JavaScript object).
RegSet(reg, key, fn) ==
  IF \E i \in 1..Len(reg) : reg[i].key = key
  THEN [i \in 1..Len(reg) |->
          IF reg[i].key = key THEN [key |-> key, fn |-> fn] ELSE reg[i]]
  ELSE Append(reg, [key |-> key, fn |-> fn])

\* Object.values(host.transports)
ObjectValues(reg) == [i \in 1..Len(reg) |-> reg[i].fn]

\* ------------------------------------------------------------- adapter

\* bindTransportMethod: this.transport becomes one bound function, made
\* once, that carries an accessor property level.
bindTransportMethod(a) == [kind |-> "discord", of |-> a]

\* A variant of getFactory that binds the method anew at each call: what it
\* returns is a function of its own, not the one kept in this.transport.
getFactory_NewBound(obj) ==
  [kind |-> "discord", of |-> obj.transport.of, bound |-> "getFactory"]

\* getFactory
getFactory(obj) == obj.transport

\* A variant of attachTo that adds a registration at each call.
attachTo_Append(obj, reg) ==
  [adapter |-> [obj EXCEPT !.electronLog = "host"],
   registry |-> Append(reg, [key |-> "discord", fn |-> getFactory(obj)])]

\* A variant of attachTo that keeps the host and registers nothing.
attachTo_NoRegister(obj, reg) ==
  [adapter |-> [obj EXCEPT !.electronLog = "host"], registry |-> reg]

\* attachTo(electronLog), on the fields obj and the registry reg
attachTo(obj, reg) ==
  [adapter |-> [obj EXCEPT !.electronLog = "host"],
   registry |-> RegSet(reg, "discord", getFactory(obj))]

\* A variant of constructor that does not look at the endpoint.
constructor_NoValidation(a, opts, reg) ==
  LET obj == [exists |-> TRUE,
              webhook |-> opts.webhook,
              username |-> OrNull(opts.username),
              avatar |-> OrNull(opts.avatar),
              thumb |-> OrNull(opts.thumb),
              level |-> Coalesce(opts.level, "silly"),
              electronLog |-> Undefined,
              transport |-> bindTransportMethod(a)]
      att == IF Truthy(opts.electronLog)
             THEN attachTo(obj, reg)
             ELSE [adapter |-> obj, registry |-> reg]
  IN  [raised |-> FALSE, error |-> Undef,
       adapter |-> att.adapter, registry |-> att.registry]

\* new DiscordTransport(opts), with the host's registry reg at hand
constructor(a, opts, reg) ==
  IF ~Truthy(opts.webhook)
  THEN [raised |-> TRUE, error |-> Err(<<"webhook is required.">>),
        adapter |-> NoAdapter, registry |-> reg]
  ELSE LET obj == [exists |-> TRUE,
                   webhook |-> opts.webhook,
                   username |-> OrNull(opts.username),
                   avatar |-> OrNull(opts.avatar),
                   thumb |-> OrNull(opts.thumb),
                   level |-> Coalesce(opts.level, "silly"),
                   electronLog |-> Undefined,
                   transport |-> bindTransportMethod(a)]
           att == IF Truthy(opts.electronLog)
                  THEN attachTo(obj, reg)
                  ELSE [adapter |-> obj, registry |-> reg]
       IN  [raised |-> FALSE, error |-> Undef,
            adapter |-> att.adapter, registry |-> att.registry]

\* A variant of HandleLevel for a handle with no level property: the host
\* finds no threshold on it and lets every level through.
HandleLevel_Unset(a) == "silly"

\* A variant of HandleLevel for a handle that was given a copy of the
\* level when it was made (transport.level = this.level in getFactory).
HandleLevel_Copied(a) ==
  IF obtained[a] # Undefined THEN obtained[a]
  ELSE Coalesce(options[a].level, "silly")

\* The level property of the handle: its getter reads this.level.
HandleLevel(a) == adapter[a].level

\* handle.level = level, by a holder of the handle.  The property is
\* defined with a getter and no setter: the assignment changes nothing,
\* and it raises a TypeError when the assigning code is strict.
SetHandleLevel(obj, level, strict) ==
  [raised |-> strict, adapter |-> obj]

\* ------------------------------------------------------------- payload

\* message.data.pop(): the last item (undefined for an empty array) and
\* the array as pop leaves it.
Pop(data) ==
  IF Len(data) = 0
  THEN [item |-> Undef, rest |-> data]
  ELSE [item |-> data[Len(data)], rest |-> SubSeq(data, 1, Len(data) - 1)]

\* Util.inspect(v, true): the text it prints for the values of the model.
Inspect(v) ==
  CASE v.t = "string" -> <<"'", v.v, "'">>
    [] v.t = "Error" -> <<"Error: ">> \o v.message \o <<"\n    at <stack>">>
    [] v.t = "Date" -> <<v.v>>
    [] v.t = "number" -> <<"<number>">>
    [] OTHER -> <<v.t>>

\* A variant of transform that renders the first item of the data.
transform_First(message) ==
  IF Len(message.data) = 0
  THEN [text |-> Inspect(Undef), message |-> message]
  ELSE [text |-> Inspect(Head(message.data)),
        message |-> [message EXCEPT !.data = Tail(message.data)]]

\* transform(message): the text, and the message as the call leaves it.
transform(message) ==
  LET p == Pop(message.data)
  IN  [text |-> Inspect(p.item),
       message |-> [message EXCEPT !.data = p.rest]]

\* this.colors[message.level]
ColorOf(level) ==
  IF level \in DOMAIN colors THEN Num(colors[level]) ELSE Undef

\* A variant of DateTimeValue that formats the date itself, as
\* message.date.toISOString() does: only a Date has that method.
DateTimeValue_ToISOString(date) ==
  IF date.t = "Date"
  THEN [raised |-> FALSE, value |-> Str(date.v)]
  ELSE [raised |-> TRUE, value |-> Undef]

\* The value of the DateTime field: message.date as it is.
DateTimeValue(date) == [raised |-> FALSE, value |-> date]

\* A level as a value of the payload (a message may carry none).
LevelValue(level) == IF level = Undefined THEN Undef ELSE Str(level)

\* getPayload(message): the payload, the message as the call leaves it,
\* and whether the call raised.
getPayload(obj, message) ==
  LET tr == transform(message)
      dt == DateTimeValue(message.date)
  IN  [raised |-> dt.raised,
       message |-> tr.message,
       payload |->
         [username |-> obj.username,
          avatar_url |-> obj.avatar,
          embeds |-> <<
            [description |-> tr.text,
             thumbnail |-> [url |-> obj.thumb],
             color |-> ColorOf(message.level),
             fields |-> <<
               [name |-> "Level", value |-> LevelValue(message.level),
                inline |-> TRUE],
               [name |-> "DateTime", value |-> dt.value,
                inline |-> TRUE] >>] >>]]

\* ------------------------------------------------------------- send

\* JSON.stringify of one value: a Date becomes its ISO string (toJSON), a
\* property whose value is undefined is left out.
JsonValue(v) ==
  CASE v.t = "Date" -> Str(v.v)
    [] v.t = "undefined" -> [t |-> "omitted"]
    [] OTHER -> v

\* JSON.stringify(payload), for a payload of the shape getPayload builds.
JSONstringify(payload) ==
  [username |-> JsonValue(payload.username),
   avatar_url |-> JsonValue(payload.avatar_url),
   embeds |-> [i \in 1..Len(payload.embeds) |->
     LET e == payload.embeds[i]
     IN  [description |-> e.description,
          thumbnail |-> [url |-> JsonValue(e.thumbnail.url)],
          color |-> JsonValue(e.color),
          fields |-> [j \in 1..Len(e.fields) |->
            [name |-> e.fields[j].name,
             value |-> JsonValue(e.fields[j].value),
             inline |-> e.fields[j].inline]]]]]

\* A variant of sendRequest that hands the payload over as it is.
sendRequest_RawBody(obj, payload) ==
  [a |-> obj.transport.of,
   url |-> obj.webhook,
   method |-> "POST",
   headers |-> [ContentType |-> "application/json"],
   body |-> payload]

\* The first half of send: the request that fetch is called with.  The
\* function is async, so nothing it does raises to its caller.
sendRequest(obj, payload) ==
  [a |-> obj.transport.of,
   url |-> obj.webhook,
   method |-> "POST",
   headers |-> [ContentType |-> "application/json"],
   body |-> JSONstringify(payload)]

\* A variant of transport that hands the payload to send twice.
transport_SendTwice(obj, message) ==
  Bind(getPayload(obj, message), LAMBDA gp :
    [raised |-> gp.raised,
     requests |-> <<sendRequest(obj, gp.payload),
                    sendRequest(obj, gp.payload)>>,
     message |-> gp.message])

\* transport(message): build the payload and hand it to send.  The result:
\* whether the call raised, the requests issued, the message afterwards.
transport(obj, message) ==
  Bind(getPayload(obj, message), LAMBDA gp :
    IF gp.raised
    THEN [raised |-> TRUE, requests |-> <<>>, message |-> gp.message]
    ELSE [raised |-> FALSE,
          requests |-> <<sendRequest(obj, gp.payload)>>,
          message |-> gp.message])

\* ------------------------------------------------------------- host

\* The place of a level in the host's order (1 is the most severe).
Rank(level) == CHOOSE i \in 1..Len(LevelOrder) : LevelOrder[i] = level

\* The threshold the host reads on a transport function.  The host's own
\* transports are taken to let every level through.
ThresholdOf(fn) == IF fn.kind = "discord" THEN HandleLevel(fn.of) ELSE "silly"

\* The host's gate: a record of this level goes to a transport with this
\* threshold.
Passes(threshold, level) == Rank(level) <= Rank(threshold)

\* The host invokes the functions of list in order, each once, with the one
\* message object; ad holds the adapters' fields.  calls lists the functions
\* invoked with the data each found in the message.
RECURSIVE Dispatch(_, _, _)
Dispatch(ad, list, message) ==
  IF Len(list) = 0
  THEN [raised |-> FALSE, calls |-> <<>>, requests |-> <<>>,
        message |-> message]
  ELSE LET fn == Head(list)
           call == [fn |-> fn, data |-> message.data]
       IN  Bind(IF fn.kind = "discord"
                THEN transport(ad[fn.of], message)
                ELSE [raised |-> FALSE, requests |-> <<>>,
                      message |-> message],
                LAMBDA one :
         IF one.raised
         THEN [raised |-> TRUE, calls |-> <<call>>, requests |-> <<>>,
               message |-> one.message]
         ELSE Bind(Dispatch(ad, Tail(list), one.message), LAMBDA rest :
                [raised |-> rest.raised,
                 calls |-> <<call>> \o rest.calls,
                 requests |-> one.requests \o rest.requests,
                 message |-> rest.message]))

\* host.logMessageWithTransports(message, list)
logMessageWithTransports(ad, message, list) == Dispatch(ad, list, message)

\* The functions of a sequence that satisfy the gate for level.
RECURSIVE Gated(_, _)
Gated(list, level) ==
  IF Len(list) = 0 THEN <<>>
  ELSE IF Passes(ThresholdOf(Head(list)), level)
       THEN <<Head(list)>> \o Gated(Tail(list), level)
       ELSE Gated(Tail(list), level)

\* ------------------------------------------------------------- reportError

\* new Set(seq): the values in order, each once.
RECURSIVE SetOf(_)
SetOf(seq) ==
  IF Len(seq) = 0 THEN <<>>
  ELSE Bind(SetOf(SubSeq(seq, 1, Len(seq) - 1)), LAMBDA front :
         IF \E i \in 1..Len(front) : front[i] = seq[Len(seq)]
         THEN front ELSE Append(front, seq[Len(seq)]))

\* set.delete(x)
RECURSIVE SetDelete(_, _)
SetDelete(seq, x) ==
  IF Len(seq) = 0 THEN <<>>
  ELSE IF Head(seq) = x THEN SetDelete(Tail(seq), x)
       ELSE <<Head(seq)>> \o SetDelete(Tail(seq), x)

\* A variant of transportStack that leaves this.transport in.
transportStack_KeepSelf(obj, reg) == SetOf(ObjectValues(reg))

\* A variant of transportStack that copies the registry, deletes the key
\* discord and takes the values that are left.
RECURSIVE WithoutKey(_, _)
WithoutKey(reg, key) ==
  IF Len(reg) = 0 THEN <<>>
  ELSE IF Head(reg).key = key THEN WithoutKey(Tail(reg), key)
       ELSE <<Head(reg)>> \o WithoutKey(Tail(reg), key)
transportStack_DeleteKey(obj, reg) ==
  ObjectValues(WithoutKey(reg, "discord"))

\* The transports reportError hands to the host: every value of the
\* registry, each once, without this.transport.
transportStack(obj, reg) == SetDelete(SetOf(ObjectValues(reg)), obj.transport)

\* Which way reportError goes: the host's rebroadcast when a host is
\* attached and has logMessageWithTransports, the console otherwise.
reportTier(obj, opts, multi) ==
  IF ~(obj.electronLog # Undefined /\ multi) THEN "console" ELSE "peers"

\* A variant of reportError whose record carries, before the error, a
\* text that names the endpoint.
reportError_Prefixed(ad, obj, opts, error, reg, multi) ==
  IF reportTier(obj, opts, multi) = "console"
  THEN [raised |-> FALSE, tiers |-> <<"console">>, warned |-> <<error>>,
        hooked |-> <<>>, list |-> <<>>, record |-> Undef,
        calls |-> <<>>, requests |-> <<>>]
  ELSE LET record == [data |-> <<Str(<<"cannot send to ", obj.webhook>>),
                                 error>>,
                      level |-> "warn", date |-> Undef]
       IN  Bind(transportStack(obj, reg), LAMBDA list :
             Bind(logMessageWithTransports(ad, record, list), LAMBDA d :
               [raised |-> d.raised, tiers |-> <<"peers">>,
                warned |-> <<>>, hooked |-> <<>>, list |-> list,
                record |-> record, calls |-> d.calls,
                requests |-> d.requests]))

\* A variant of reportError that drops the error.
reportError_Silent(ad, obj, opts, error, reg, multi) ==
  [raised |-> FALSE, tiers |-> <<>>, warned |-> <<>>, hooked |-> <<>>,
   list |-> <<>>, record |-> Undef, calls |-> <<>>, requests |-> <<>>]

\* reportError(error) of adapter obj (constructed with opts).
reportError(ad, obj, opts, error, reg, multi) ==
  IF reportTier(obj, opts, multi) = "console"
  THEN [raised |-> FALSE, tiers |-> <<"console">>, warned |-> <<error>>,
        hooked |-> <<>>, list |-> <<>>, record |-> Undef,
        calls |-> <<>>, requests |-> <<>>]
  ELSE LET record == [data |-> <<error>>, level |-> "warn", date |-> Undef]
       IN  Bind(transportStack(obj, reg), LAMBDA list :
             Bind(logMessageWithTransports(ad, record, list), LAMBDA d :
               [raised |-> d.raised, tiers |-> <<"peers">>,
                warned |-> <<>>, hooked |-> <<>>, list |-> list,
                record |-> record, calls |-> d.calls,
                requests |-> d.requests]))

\* ------------------------------------------------------------- delivery

\* What fetch may end with: a response that is ok (with its body), a
\* response that is not, or a rejection with its cause.
Outcomes ==
  {[kind |-> "response", ok |-> TRUE, body |-> Str("receipt")],
   [kind |-> "response", ok |-> FALSE, body |-> Undef],
   [kind |-> "rejected", cause |-> Err(<<"fail">>)]}

\* A variant of Sent that reads the endpoint and the identity fields on
\* the adapter when the request goes out.
Sent_Live(obj, pending) ==
  [pending EXCEPT !.url = obj.webhook,
                  !.body.username = JsonValue(obj.username),
                  !.body.avatar_url = JsonValue(obj.avatar),
                  !.body.embeds[1].thumbnail.url = JsonValue(obj.thumb)]

\* What a pending delivery has sent: the endpoint and the options object
\* (the body a string already) that fetch was called with.
Sent(obj, pending) == pending

\* A variant of the .then handler whose error tells the status and not
\* the endpoint.
thenHandler_StatusText(obj, response) ==
  IF ~response.ok
  THEN [threw |-> TRUE,
        error |-> Err(<<"Erro ao enviar a mensagem: ", "<status>">>)]
  ELSE [threw |-> FALSE, value |-> response.body]

\* A variant of the .then handler that returns nothing.
thenHandler_NoReturn(obj, response) ==
  IF ~response.ok
  THEN [threw |-> TRUE,
        error |-> Err(<<"ElectronLogDiscord: cannot send HTTP request to ",
                        obj.webhook>>)]
  ELSE [threw |-> FALSE, value |-> Undef]

\* The .then handler of send, applied to a response.
thenHandler(obj, response) ==
  IF ~response.ok
  THEN [threw |-> TRUE,
        error |-> Err(<<"ElectronLogDiscord: cannot send HTTP request to ",
                        obj.webhook>>)]
  ELSE [threw |-> FALSE, value |-> response.body]

\* A variant of afterThen that replaces the cause of a rejection by an
\* error of its own.
afterThen_WrapCause(obj, outcome) ==
  IF outcome.kind = "rejected" \/ ~outcome.ok
  THEN [state |-> "rejected",
        value |-> Err(<<"ElectronLogDiscord: cannot send HTTP request to ",
                        obj.webhook>>)]
  ELSE [state |-> "fulfilled", value |-> outcome.body]

\* The promise after fetch(...).then(handler).
afterThen(obj, outcome) ==
  IF outcome.kind = "rejected"
  THEN [state |-> "rejected", value |-> outcome.cause]
  ELSE LET h == thenHandler(obj, outcome)
       IN  IF h.threw
           THEN [state |-> "rejected", value |-> h.error]
           ELSE [state |-> "fulfilled", value |-> h.value]

NoReport ==
  [raised |-> FALSE, tiers |-> <<>>, warned |-> <<>>, hooked |-> <<>>,
   list |-> <<>>, record |-> Undef, calls |-> <<>>, requests |-> <<>>]

\* A variant of sendSettle with no .catch: a failure rejects the promise.
sendSettle_NoCatch(ad, obj, opts, outcome, reg, multi) ==
  Bind(afterThen(obj, outcome), LAMBDA p :
    [promise |-> p.state, value |-> p.value, reported |-> <<>>,
     report |-> NoReport])

\* The second half of send: the promise it returns once fetch has ended
\* with outcome, after .then(...).catch(this.reportError.bind(this)).
sendSettle(ad, obj, opts, outcome, reg, multi) ==
  Bind(afterThen(obj, outcome), LAMBDA p :
    IF p.state = "fulfilled"
    THEN [promise |-> "fulfilled", value |-> p.value, reported |-> <<>>,
          report |-> NoReport]
    ELSE Bind(reportError(ad, obj, opts, p.value, reg, multi), LAMBDA r :
           [promise |-> IF r.raised THEN "rejected" ELSE "fulfilled",
            value |-> Undef, reported |-> <<p.value>>, report |-> r]))

\* ------------------------------------------------------------- inputs

\* Options left out of a call of the constructor.
NoOptions ==
  [webhook |-> Undefined, username |-> Undefined, avatar |-> Undefined,
   thumb |-> Undefined, level |-> Undefined, electronLog |-> Undefined,
   reportErrorFn |-> Undefined]

IsoText == "2024-01-01T00:00:00.000Z"

\* The records a caller passes to the handle directly: an ordinary one,
\* one with no data, a level the colour table lacks and a Date, and one
\* with several items and neither level nor date.
Messages ==
  {[data |-> <<Str("boom")>>, level |-> "error", date |-> Str(IsoText)],
   [data |-> <<>>, level |-> "bogus", date |-> DateObj(IsoText)],
   [data |-> <<Str("a"), Str("boom")>>, level |-> Undefined, date |-> Undef]}

\* The records getPayload is called with directly: those above and the
\* kind reportError makes (an Error as the last item, no date).
PayloadRecords ==
  Messages \cup
  {[data |-> <<Num(1), Err(<<"fail">>)>>, level |-> "warn", date |-> Undef]}

\* The records whose payloads send is called with directly.
SendRecords == {m \in Messages : m.level # Undefined}

\* The data of a log call on the host.
LogData == <<Str("a"), Str("boom")>>

\* ------------------------------------------------------------- actions

EvBase ==
  [op |-> "none", a |-> "-", raised |-> FALSE, level |-> Undefined,
   calls |-> <<>>, requests |-> <<>>, outcome |-> [kind |-> "none"],
   promise |-> "none", value |-> Undef, reported |-> <<>>,
   tiers |-> <<>>, warned |-> <<>>, hooked |-> <<>>, list |-> <<>>,
   record |-> Undef, payload |-> Undef, again |-> Undef, before |-> <<>>,
   sent |-> Undef]

\* The state after new DiscordTransport(o1) and then, when o2 names an
\* endpoint, new DiscordTransport(o2), on a host that has its console
\* transport.
InitWith(o1, o2, multi) ==
  LET c1 == constructor("a1", o1, <<[key |-> "console", fn |-> ConsoleT]>>)
      c2 == constructor("a2", o2, c1.registry)
  IN  /\ adapter = [a \in Adapters |->
                      IF a = "a1" THEN c1.adapter ELSE c2.adapter]
      /\ options = [a \in Adapters |-> IF a = "a1" THEN o1 ELSE o2]
      /\ hostMulti = multi
      /\ registry = c2.registry
      /\ inflight = <<>>
      /\ obtained = [a \in Adapters |-> Undefined]
      /\ ev = [EvBase EXCEPT !.op = "constructor", !.a = "a1",
                             !.raised = c1.raised, !.value = c1.error]

\* Requests as they are kept while pending: each with the adapters whose
\* failures led to it (none for a request that a log call made).
Caused(requests, causes) ==
  [i \in 1..Len(requests) |-> requests[i] @@ [causes |-> causes]]

\* The owner writes the adapter's level: adapter.level = level.
SetLevel(a, level) ==
  /\ adapter[a].exists
  /\ adapter' = [adapter EXCEPT ![a].level = level]
  /\ ev' = [EvBase EXCEPT !.op = "setLevel", !.a = a, !.level = level]
  /\ UNCHANGED <<options, hostMulti, registry, inflight, obtained>>

\* The owner writes an identity field: adapter.username, .avatar, .thumb.
SetIdentity(a, field, value) ==
  /\ adapter[a].exists
  /\ adapter[a][field] # Str(value)
  /\ adapter' = [adapter EXCEPT ![a][field] = Str(value)]
  /\ ev' = [EvBase EXCEPT !.op = "setIdentity", !.a = a]
  /\ UNCHANGED <<options, hostMulti, registry, inflight, obtained>>

\* adapter.attachTo(host)
AttachTo(a) ==
  /\ adapter[a].exists
  /\ \E att \in {attachTo(adapter[a], registry)} :
         /\ adapter' = [adapter EXCEPT ![a] = att.adapter]
         /\ registry' = att.registry
  /\ ev' = [EvBase EXCEPT !.op = "attachTo", !.a = a, !.before = registry]
  /\ UNCHANGED <<options, hostMulti, inflight, obtained>>

\* adapter.getFactory(): the caller keeps the handle it returns.
GetFactory(a) ==
  /\ adapter[a].exists
  /\ obtained' = [obtained EXCEPT ![a] = adapter[a].level]
  /\ ev' = [EvBase EXCEPT !.op = "getFactory", !.a = a,
                          !.value = getFactory(adapter[a])]
  /\ UNCHANGED <<adapter, options, hostMulti, registry, inflight>>

\* The holder of a handle obtained earlier reads its level.
ReadLevel(a) ==
  /\ adapter[a].exists
  /\ obtained[a] # Undefined
  /\ ev' = [EvBase EXCEPT !.op = "readLevel", !.a = a,
                          !.level = HandleLevel(a)]
  /\ UNCHANGED <<adapter, options, hostMulti, registry, inflight, obtained>>

\* The holder of a handle obtained earlier writes its level.
WriteHandleLevel(a, level) ==
  /\ adapter[a].exists
  /\ obtained[a] # Undefined
  /\ \E strict \in BOOLEAN :
       \E w \in {SetHandleLevel(adapter[a], level, strict)} :
         /\ adapter' = [adapter EXCEPT ![a] = w.adapter]
         /\ ev' = [EvBase EXCEPT !.op = "writeLevel", !.a = a,
                                 !.level = level, !.raised = w.raised]
  /\ UNCHANGED <<options, hostMulti, registry, inflight, obtained>>

\* adapter.getPayload(message), called twice with the one record object.
CallGetPayload(a, message) ==
  /\ adapter[a].exists
  /\ \E g1 \in {getPayload(adapter[a], message)} :
       \E g2 \in {getPayload(adapter[a], g1.message)} :
         ev' = [EvBase EXCEPT !.op = "getPayload", !.a = a,
                              !.raised = g1.raised \/ g2.raised,
                              !.level = message.level,
                              !.record = message,
                              !.payload = g1.payload,
                              !.again = g2.payload]
  /\ UNCHANGED <<adapter, options, hostMulti, registry, inflight, obtained>>

\* adapter.send(payload), called directly; the promise is left pending.
CallSend(a, payload) ==
  /\ adapter[a].exists
  /\ \E r \in {Caused(<<sendRequest(adapter[a], payload)>>, {})[1]} :
       /\ Len(inflight) + 1 <= MaxInflight
       /\ inflight' = Append(inflight, r)
       /\ ev' = [EvBase EXCEPT !.op = "sendCall", !.a = a,
                               !.payload = payload, !.requests = <<r>>]
  /\ UNCHANGED <<adapter, options, hostMulti, registry, obtained>>

\* host.transports[key] = fn, by the host's owner.
HostSet(key, fn) ==
  /\ key # "console"
  /\ fn.kind = "discord" => adapter[fn.of].exists
  /\ RegGet(registry, key) # fn
  /\ registry' = RegSet(registry, key, fn)
  /\ ev' = [EvBase EXCEPT !.op = "hostSet"]
  /\ UNCHANGED <<adapter, options, hostMulti, inflight, obtained>>

\* host.<level>(...data): the host builds the record and invokes every
\* registered transport whose threshold lets the level through.
HostLog(level, data) ==
  \E d \in {Dispatch(adapter, Gated(ObjectValues(registry), level),
                      [data |-> data, level |-> level,
                       date |-> DateObj(IsoText)])} :
      /\ Len(inflight) + Len(d.requests) <= MaxInflight
      /\ inflight' = inflight \o Caused(d.requests, {})
      /\ ev' = [EvBase EXCEPT !.op = "log", !.level = level,
                              !.raised = d.raised, !.calls = d.calls,
                              !.requests = Caused(d.requests, {})]
      /\ UNCHANGED <<adapter, options, hostMulti, registry, obtained>>

\* A variant of CallHandle in which a new delivery takes the place of
\* those still pending.
CallHandle_Supersede(a, message) ==
  /\ adapter[a].exists
  /\ \E d \in {Dispatch(adapter, <<adapter[a].transport>>, message)} :
         /\ Len(d.requests) <= MaxInflight
         /\ inflight' = Caused(d.requests, {})
         /\ ev' = [EvBase EXCEPT !.op = "transport", !.a = a,
                                 !.level = message.level,
                                 !.raised = d.raised, !.calls = d.calls,
                                 !.requests = Caused(d.requests, {})]
  /\ UNCHANGED <<adapter, options, hostMulti, registry, obtained>>

\* The handle is invoked with a record.
CallHandle(a, message) ==
  /\ adapter[a].exists
  /\ \E d \in {Dispatch(adapter, <<adapter[a].transport>>, message)} :
         /\ Len(inflight) + Len(d.requests) <= MaxInflight
         /\ inflight' = inflight \o Caused(d.requests, {})
         /\ ev' = [EvBase EXCEPT !.op = "transport", !.a = a,
                                 !.level = message.level,
                                 !.raised = d.raised, !.calls = d.calls,
                                 !.requests = Caused(d.requests, {})]
  /\ UNCHANGED <<adapter, options, hostMulti, registry, obtained>>

\* The request at place i of the pending ones ends with outcome, and the
\* promise of its send settles.
Settle(i, outcome) ==
  /\ i \in 1..Len(inflight)
  /\ \E a \in {inflight[i].a},
        rest \in {SubSeq(inflight, 1, i - 1)
                    \o SubSeq(inflight, i + 1, Len(inflight))},
        s \in {sendSettle(adapter, adapter[inflight[i].a],
                          options[inflight[i].a], outcome, registry,
                          hostMulti)} :
         /\ Len(rest) + Len(s.report.requests) <= MaxInflight
         /\ inflight' = rest \o Caused(s.report.requests,
                                          inflight[i].causes \cup {a})
         /\ ev' = [EvBase EXCEPT !.op = "send", !.a = a,
                                 !.sent = Sent(adapter[a], inflight[i]),
                                 !.outcome = outcome,
                                 !.promise = s.promise, !.value = s.value,
                                 !.reported = s.reported,
                                 !.tiers = s.report.tiers,
                                 !.warned = s.report.warned,
                                 !.hooked = s.report.hooked,
                                 !.list = s.report.list,
                                 !.record = s.report.record,
                                 !.calls = s.report.calls,
                                 !.requests = Caused(s.report.requests,
                                                     inflight[i].causes
                                                       \cup {a})]
  /\ UNCHANGED <<adapter, options, hostMulti, registry, obtained>>

\* adapter.reportError(error), called directly.
CallReportError(a, error) ==
  /\ adapter[a].exists
  /\ \E r \in {reportError(adapter, adapter[a], options[a], error,
                            registry, hostMulti)} :
         /\ Len(inflight) + Len(r.requests) <= MaxInflight
         /\ inflight' = inflight \o Caused(r.requests, {a})
         /\ ev' = [EvBase EXCEPT !.op = "reportError", !.a = a,
                                 !.raised = r.raised,
                                 !.reported = <<error>>,
                                 !.tiers = r.tiers, !.warned = r.warned,
                                 !.hooked = r.hooked, !.list = r.list,
                                 !.record = r.record, !.calls = r.calls,
                                 !.requests = Caused(r.requests, {a})]
  /\ UNCHANGED <<adapter, options, hostMulti, registry, obtained>>

\* ------------------------------------------------------------- delivery

\* Deliveries and their outcomes: the first adapter is constructed with or
\* without an endpoint, a host and an error hook; a second adapter may be
\* registered beside it.
Init ==
  \E w \in {Undefined, "", Webhook("a1")}, h \in {Undefined, "host"},
     f \in {Undefined, "fn"}, w2 \in {Undefined, Webhook("a2")},
     multi \in BOOLEAN :
    InitWith([NoOptions EXCEPT !.webhook = w, !.electronLog = h,
                               !.reportErrorFn = f],
             [NoOptions EXCEPT !.webhook = w2], multi)

Next ==
  \/ \E message \in Messages : CallHandle("a1", message)
  \/ HostSet("another", bindTransportMethod("a2"))
  \/ \E i \in 1..MaxInflight, outcome \in Outcomes : Settle(i, outcome)
  \/ CallReportError("a1", Err(<<"fail">>))

Spec == Init /\ [][Next]_vars

\* ------------------------------------------------------------- reporting

\* Failure reporting over the registry states the host's owner can make.
InitReport ==
  \E h \in {Undefined, "host"}, w2 \in {Undefined, Webhook("a2")},
     multi \in BOOLEAN :
    InitWith([NoOptions EXCEPT !.webhook = Webhook("a1"), !.electronLog = h],
             [NoOptions EXCEPT !.webhook = w2], multi)

NextReport ==
  \/ \E key \in {"discord", "another"}, a \in Adapters :
       HostSet(key, bindTransportMethod(a))
  \/ \E key \in {"discord", "another"} : HostSet(key, CustomT)
  \/ \E a \in Adapters : AttachTo(a)
  \/ \E a \in Adapters : CallReportError(a, Err(<<"fail">>))
  \/ \E i \in 1..MaxInflight, outcome \in Outcomes : Settle(i, outcome)

SpecReport == InitReport /\ [][NextReport]_vars

\* ------------------------------------------------------------- identity

\* Handles obtained and registered by the adapters' own operations.
NextIdentity ==
  \/ \E a \in Adapters : GetFactory(a)
  \/ \E a \in Adapters : AttachTo(a)
  \/ \E a \in Adapters : CallReportError(a, Err(<<"fail">>))
  \/ \E i \in 1..MaxInflight, outcome \in Outcomes : Settle(i, outcome)

SpecIdentity == InitReport /\ [][NextIdentity]_vars

\* ------------------------------------------------------------- levels

\* The threshold and the host's gate.
InitLevel ==
  \E l \in {Undefined, "warn"}, h \in {Undefined, "host"} :
    InitWith([NoOptions EXCEPT !.webhook = Webhook("a1"), !.level = l,
                               !.electronLog = h],
             NoOptions, TRUE)

\* The outcomes of a request that reached the endpoint and was accepted;
\* the failing outcomes are explored by Spec and SpecReport.
Delivered == {o \in Outcomes : o.kind = "response" /\ o.ok}

NextLevel ==
  \/ \E level \in Levels : SetLevel("a1", level)
  \/ AttachTo("a1")
  \/ GetFactory("a1")
  \/ ReadLevel("a1")
  \/ \E level \in Levels : HostLog(level, LogData)
  \/ \E i \in 1..MaxInflight, outcome \in Delivered : Settle(i, outcome)

SpecLevel == InitLevel /\ [][NextLevel]_vars

\* ------------------------------------------------------------- handle

\* The level as the adapter's owner and a holder of the handle see it.
NextHandle ==
  \/ \E level \in Levels : SetLevel("a1", level)
  \/ GetFactory("a1")
  \/ ReadLevel("a1")
  \/ \E level \in Levels : WriteHandleLevel("a1", level)

SpecHandle == InitLevel /\ [][NextHandle]_vars

\* ------------------------------------------------------------- payloads

\* Payload building over the identity options an adapter may be given.
InitPayload ==
  \E u \in {Undefined, "App"}, av \in {Undefined, "https://x/avatar.png"},
     th \in {Undefined, "https://x/thumb.png"} :
    InitWith([NoOptions EXCEPT !.webhook = Webhook("a1"), !.username = u,
                               !.avatar = av, !.thumb = th],
             NoOptions, FALSE)

NextPayload ==
  \/ \E message \in PayloadRecords : CallGetPayload("a1", message)
  \/ \E message \in Messages : CallHandle("a1", message)
  \/ \E i \in 1..MaxInflight, outcome \in Outcomes : Settle(i, outcome)

SpecPayload == InitPayload /\ [][NextPayload]_vars

\* ------------------------------------------------------------- requests

\* The requests of an adapter named App, through send and the handle.
InitSend ==
  InitWith([NoOptions EXCEPT !.webhook = Webhook("a1"), !.username = "App"],
           NoOptions, FALSE)

NextSend ==
  \/ SetLevel("a1", "warn")
  \/ \E field \in {"username", "thumb"} : SetIdentity("a1", field, "new")
  \/ \E message \in SendRecords :
       CallSend("a1", getPayload(adapter["a1"], message).payload)
  \/ \E message \in SendRecords : CallHandle("a1", message)
  \/ \E i \in 1..MaxInflight, outcome \in Outcomes : Settle(i, outcome)

SpecSend == InitSend /\ [][NextSend]_vars

\* ------------------------------------------------------------- claims

\* The last operation was a send whose fetch ended, and how.
SendEnded == ev.op = "send"
SendFailed ==
  /\ SendEnded
  /\ \/ ev.outcome.kind = "rejected"
     \/ ev.outcome.kind = "response" /\ ~ev.outcome.ok
SendNotOk == SendEnded /\ ev.outcome.kind = "response" /\ ~ev.outcome.ok
SendRejected == SendEnded /\ ev.outcome.kind = "rejected"

\* The text of an error names this endpoint.
NamesEndpoint(error, webhook) ==
  /\ error.t = "Error"
  /\ \E i \in 1..Len(error.message) : error.message[i] = webhook

\* An error carries this cause: it is the cause, or holds it as its cause.
PreservesCause(error, cause) ==
  \/ error = cause
  \/ "cause" \in DOMAIN error /\ error.cause = cause

\* C1: whatever the network call ends with (an ok response, a response
\* that is not ok, a rejection), the promise send returned is fulfilled,
\* never rejected, and a failure has gone to reportError (one call), a
\* success to none.
C1_SendAlwaysResolves ==
  SendEnded =>
    /\ ev.promise = "fulfilled"
    /\ Len(ev.reported) = (IF SendFailed THEN 1 ELSE 0)
    /\ Len(ev.tiers) = Len(ev.reported)

\* C1 witness: a rejected fetch, reported to the host's other transports,
\* and the promise fulfilled.
C1_Witness ==
  /\ SendRejected
  /\ ev.promise = "fulfilled"
  /\ ev.reported = <<ev.outcome.cause>>
  /\ ev.tiers = <<"peers">>

C6_NotOkReportsEndpoint ==
  SendNotOk =>
    /\ Len(ev.reported) = 1
    /\ NamesEndpoint(ev.reported[1], adapter[ev.a].webhook)
    /\ ev.promise = "fulfilled"

\* C6 witness: a response that was not ok, reported on the console.
C6_Witness ==
  /\ SendNotOk
  /\ Len(ev.reported) = 1
  /\ ev.warned = ev.reported

\* C7 as claimed: when the network call itself fails, send routes exactly
\* one error to reportError, and that error names the endpoint and
\* preserves the cause.
C7_RejectionNamesEndpoint ==
  SendRejected =>
    /\ Len(ev.reported) = 1
    /\ NamesEndpoint(ev.reported[1], adapter[ev.a].webhook)
    /\ PreservesCause(ev.reported[1], ev.outcome.cause)

\* C7 as amended: when the network call itself fails, send routes exactly
\* one error to reportError, and that error is the cause of the failure
\* itself, unchanged: send adds no text naming the endpoint to it.
C7_RejectionRoutesCause ==
  SendRejected => ev.reported = <<ev.outcome.cause>>

\* C7 witness: a rejected fetch whose cause went to reportError and does
\* not name the endpoint.
C7_Witness ==
  /\ SendRejected
  /\ ev.reported = <<ev.outcome.cause>>
  /\ ~NamesEndpoint(ev.reported[1], adapter[ev.a].webhook)

\* The requests of the last operation that adapter a issued.
RequestsBy(a) == {i \in 1..Len(ev.requests) : ev.requests[i].a = a}
\* The invocations of a's handle in the last operation.
CallsOf(a) ==
  {i \in 1..Len(ev.calls) : ev.calls[i].fn = bindTransportMethod(a)}

\* C8: every invocation of the handle issues exactly one request, to the
\* configured endpoint, which is pending when the call returns; the end of
\* a delivery, failed or not, makes the adapter issue no further request.
C8_OneRequestPerInvocation ==
  /\ \A a \in Adapters :
       /\ Cardinality(RequestsBy(a)) = Cardinality(CallsOf(a))
       /\ \A i \in RequestsBy(a) :
            adapter[a].exists /\ ev.requests[i].url = adapter[a].webhook
  /\ ev.op = "transport" =>
       /\ Len(ev.requests) = 1
       /\ ev.requests[1].a = ev.a
       /\ Len(inflight) >= 1
       /\ inflight[Len(inflight)] = ev.requests[1]
  /\ SendEnded => RequestsBy(ev.a) = {}

\* C8 witness: a delivery failed, its adapter issued nothing more, and the
\* rebroadcast made another adapter issue its one request.
C8_Witness ==
  /\ SendFailed
  /\ RequestsBy(ev.a) = {}
  /\ \E b \in Adapters \ {ev.a} :
       Cardinality(RequestsBy(b)) = 1 /\ Cardinality(CallsOf(b)) = 1

\* The functions registered on the host, and the one of adapter a.
Registered == {registry[i].fn : i \in 1..Len(registry)}
Own(a) == adapter[a].transport
\* The last operation reported an error by the host's rebroadcast.
Rebroadcast == ev.tiers = <<"peers">>
\* How often the last operation invoked fn.
TimesInvoked(fn) == Cardinality({i \in 1..Len(ev.calls) : ev.calls[i].fn = fn})

\* C3: a reportError that goes the way of the host's rebroadcast invokes
\* each registered transport other than the adapter's own exactly once,
\* and the adapter's own not at all.
C3_PeersInvokedOnce ==
  Rebroadcast =>
    /\ \A fn \in Registered :
         TimesInvoked(fn) = (IF fn = Own(ev.a) THEN 0 ELSE 1)
    /\ Len(ev.calls) = Cardinality(Registered \ {Own(ev.a)})

\* C3 witness: the adapter is registered beside two other transports, and
\* a rebroadcast invoked those two.
C3_Witness ==
  /\ Rebroadcast
  /\ Own(ev.a) \in Registered
  /\ Cardinality(Registered \ {Own(ev.a)}) = 2
  /\ Len(ev.calls) = 2

\* C4: whatever the keys are that hold the adapter's handle, the list
\* reportError passes to logMessageWithTransports lacks that handle and
\* holds every other registered transport.
C4_ExclusionByIdentity ==
  Rebroadcast =>
    {ev.list[i] : i \in 1..Len(ev.list)} = Registered \ {Own(ev.a)}

\* C4 witness: the adapter's handle sits under the key another, a
\* different transport under the key discord, and the list passed holds
\* the latter and not the former.
C4_Witness ==
  /\ Rebroadcast
  /\ RegGet(registry, "another") = Own(ev.a)
  /\ RegGet(registry, "discord") \in Registered \ {Own(ev.a)}
  /\ \E i \in 1..Len(ev.list) : ev.list[i] = RegGet(registry, "discord")
  /\ \A i \in 1..Len(ev.list) : ev.list[i] # Own(ev.a)

\* The tier the claim gives a report of adapter a.
TierByPriority(a) ==
  IF options[a].reportErrorFn # Undefined THEN "hook"
  ELSE IF adapter[a].electronLog # Undefined /\ hostMulti THEN "peers"
  ELSE "console"

\* C5 as claimed: every reportError fires exactly one tier: the hook when
\* one was configured, else the rebroadcast when a host with
\* logMessageWithTransports is attached, else the console.
C5_OneTierByPriority ==
  Len(ev.reported) > 0 => ev.tiers = <<TierByPriority(ev.a)>>

\* C9: a log call on the host reaches the registered adapter (one request
\* issued) exactly when its level is at least as severe as the adapter's
\* level at that moment; with the level warn that is error and warn only;
\* an adapter constructed with no level has the level silly.
C9_GateFollowsLiveLevel ==
  /\ (ev.op = "log" /\ Own("a1") \in Registered) =>
       /\ Cardinality(RequestsBy("a1")) =
            (IF Rank(ev.level) <= Rank(adapter["a1"].level) THEN 1 ELSE 0)
       /\ adapter["a1"].level = "warn" =>
            (RequestsBy("a1") # {} <=> ev.level \in {"error", "warn"})
  /\ (ev.op = "constructor" /\ options["a1"].level = Undefined) =>
       adapter["a1"].level = "silly"

\* C9 witness: the level was set to warn after a construction without
\* one, and an info call on the host did not reach the adapter.
C9_Witness ==
  /\ ev.op = "log"
  /\ ev.level = "info"
  /\ Own("a1") \in Registered
  /\ options["a1"].level = Undefined
  /\ adapter["a1"].level = "warn"
  /\ RequestsBy("a1") = {}

\* C10: reading level on a handle that getFactory returned gives the
\* adapter's level of that moment.
C10_HandleReadsCurrentLevel ==
  ev.op = "readLevel" => ev.level = adapter[ev.a].level

\* C10 witness: the level read on the handle is the current one, which is
\* neither the one the adapter was constructed with nor the one it had
\* when the handle was obtained.
C10_Witness ==
  /\ ev.op = "readLevel"
  /\ ev.level = adapter[ev.a].level
  /\ ev.level # obtained[ev.a]
  /\ ev.level # Coalesce(options[ev.a].level, "silly")

\* C11 as claimed: after a level is assigned to the handle, the adapter's
\* level is the assigned value, and the handle reads that value too.
C11_WriteThroughHandle ==
  ev.op = "writeLevel" =>
    /\ adapter[ev.a].level = ev.level
    /\ HandleLevel(ev.a) = ev.level

\* C12 as claimed: getPayload called twice with the same record, on an
\* adapter whose identity fields did not change, returns the same payload
\* both times.
C12_GetPayloadPure ==
  ev.op = "getPayload" => ev.again = ev.payload

\* The last item of a data sequence (undefined when there is none).
LastItem(data) == IF Len(data) = 0 THEN Undef ELSE data[Len(data)]

\* C20: getPayload returns exactly username, avatar_url and one embed:
\* the description renders the last item of the record's data, the
\* thumbnail is the configured one, the colour is the table's entry for
\* the record's level, the fields are Level and DateTime in this order,
\* both inline; what was not configured is null.  For the adapter named
\* App and the record (boom, error, 2024-01-01T00:00:00.000Z) that is the
\* payload with the description 'boom' and the colour 0xF44336.
C20_PayloadShape ==
  ev.op = "getPayload" =>
    /\ ev.payload =
         [username |-> OrNull(options[ev.a].username),
          avatar_url |-> OrNull(options[ev.a].avatar),
          embeds |-> <<
            [description |-> Inspect(LastItem(ev.record.data)),
             thumbnail |-> [url |-> OrNull(options[ev.a].thumb)],
             color |-> IF ev.record.level \in DOMAIN colors
                       THEN Num(colors[ev.record.level]) ELSE Undef,
             fields |-> <<
               [name |-> "Level",
                value |-> IF ev.record.level = Undefined THEN Undef
                          ELSE Str(ev.record.level),
                inline |-> TRUE],
               [name |-> "DateTime", value |-> ev.record.date,
                inline |-> TRUE] >>] >>]
    /\ (/\ options[ev.a].username = "App"
        /\ options[ev.a].avatar = Undefined
        /\ options[ev.a].thumb = Undefined
        /\ ev.record = [data |-> <<Str("boom")>>, level |-> "error",
                        date |-> Str("2024-01-01T00:00:00.000Z")])
       => ev.payload =
            [username |-> Str("App"), avatar_url |-> Null,
             embeds |-> <<
               [description |-> <<"'", "boom", "'">>,
                thumbnail |-> [url |-> Null],
                color |-> Num(16007990),
                fields |-> <<
                  [name |-> "Level", value |-> Str("error"),
                   inline |-> TRUE],
                  [name |-> "DateTime",
                   value |-> Str("2024-01-01T00:00:00.000Z"),
                   inline |-> TRUE] >>] >>]

\* C20 witness: a record with two items gave a payload that describes the
\* second and lacks the first, on an adapter with a name and no avatar.
C20_Witness ==
  /\ ev.op = "getPayload"
  /\ ev.record.data = <<Str("a"), Str("boom")>>
  /\ ev.payload.embeds[1].description = <<"'", "boom", "'">>
  /\ ev.payload.username = Str("App")
  /\ ev.payload.avatar_url = Null
  /\ Len(ev.payload.embeds) = 1
  /\ Len(ev.payload.embeds[1].fields) = 2

\* The keys of a registry, and the places of a key in it.
KeysOf(reg) == {reg[i].key : i \in 1..Len(reg)}
PlacesOf(reg, key) == {i \in 1..Len(reg) : reg[i].key = key}

\* C13: attachTo leaves one registration at the key discord, the
\* adapter's handle, and every other entry of the registry as it was; on
\* an adapter that is attached already it leaves the registry as it was.
C13_AttachIdempotent ==
  ev.op = "attachTo" =>
    /\ Cardinality(PlacesOf(registry, "discord")) = 1
    /\ RegGet(registry, "discord") = Own(ev.a)
    /\ KeysOf(registry) = KeysOf(ev.before) \cup {"discord"}
    /\ \A key \in KeysOf(ev.before) \ {"discord"} :
         /\ RegGet(registry, key) = RegGet(ev.before, key)
         /\ PlacesOf(registry, key) = PlacesOf(ev.before, key)
    /\ RegGet(ev.before, "discord") = Own(ev.a) => registry = ev.before

\* C13 witness: an adapter attached by its constructor was attached
\* again, beside another entry, and the registry is as before.
C13_Witness ==
  /\ ev.op = "attachTo"
  /\ options[ev.a].electronLog = "host"
  /\ RegGet(ev.before, "discord") = Own(ev.a)
  /\ "another" \in KeysOf(ev.before)
  /\ registry = ev.before

\* The last operation attached its adapter: attachTo, or a constructor
\* that was given a host.
Attached ==
  \/ ev.op = "attachTo"
  \/ ev.op = "constructor" /\ ~ev.raised
       /\ Truthy(options[ev.a].electronLog)

\* C14: after a construction with a host, and after attachTo, the host's
\* entry discord is the adapter's own handle and the adapter refers to
\* the host.
C14_SelfRegistration ==
  Attached =>
    /\ RegGet(registry, "discord") = Own(ev.a)
    /\ Own(ev.a) = bindTransportMethod(ev.a)
    /\ adapter[ev.a].electronLog = "host"

\* C14 witness: a constructor given a host left the adapter registered.
C14_Witness ==
  /\ ev.op = "constructor"
  /\ options[ev.a].electronLog = "host"
  /\ RegGet(registry, "discord") = bindTransportMethod(ev.a)
  /\ adapter[ev.a].electronLog = "host"

\* A sequence without its element at place i.
Without(seq, i) == SubSeq(seq, 1, i - 1) \o SubSeq(seq, i + 1, Len(seq))

\* C15: an invocation of the handle returns with its one request pending
\* and no outcome awaited, and leaves the deliveries that were pending as
\* they were; each delivery ends on its own, with the receipt or with
\* its failure reported, and its end leaves the other pending deliveries
\* as they were.
C15_FireAndForget ==
  [][/\ ev'.op = "transport" =>
          /\ ~ev'.raised
          /\ ev'.promise = "none" /\ ev'.outcome.kind = "none"
          /\ Len(ev'.requests) = 1
          /\ inflight' = inflight \o ev'.requests
     /\ ev'.op = "send" =>
          /\ \E i \in 1..Len(inflight) :
               /\ inflight[i].a = ev'.a
               /\ inflight' = Without(inflight, i) \o ev'.requests
          /\ ev'.promise = "fulfilled"
          /\ \/ ev'.outcome.kind = "response" /\ ev'.outcome.ok
                  /\ ev'.value = ev'.outcome.body
             \/ Len(ev'.reported) = 1]_vars

\* C15 witness: an invocation returned with its request pending behind
\* that of an earlier invocation, which is pending still.
C15_Witness ==
  /\ ev.op = "transport"
  /\ ~ev.raised
  /\ ev.promise = "none"
  /\ Len(inflight) = 2
  /\ inflight[2] = ev.requests[1]

\* The items of a data sequence.
ItemsOf(data) == {data[i] : i \in 1..Len(data)}

\* C16: when a delivery fails, its error is written to the console or
\* handed, in a record of level warn, to at least one transport of the
\* host other than the adapter's own, in the step in which the failure is
\* handled; nothing raises and the promise of send is fulfilled.
C16_FailureWarnsElsewhere ==
  SendFailed =>
    /\ ~ev.raised
    /\ ev.promise = "fulfilled"
    /\ Len(ev.reported) = 1
    /\ \/ ev.warned = ev.reported
       \/ /\ ev.record # Undef
          /\ ev.record.level = "warn"
          /\ \E i \in 1..Len(ev.calls) :
               /\ ev.calls[i].fn # Own(ev.a)
               /\ ev.reported[1] \in ItemsOf(ev.calls[i].data)

\* C16 witness: a response that was not ok on an attached adapter; the
\* host's console transport and another adapter's were handed the error.
C16_Witness ==
  /\ SendNotOk
  /\ ev.warned = <<>>
  /\ \E i, j \in 1..Len(ev.calls) :
       /\ ev.calls[i].fn = ConsoleT
       /\ ev.calls[j].fn = bindTransportMethod("a2")
       /\ ev.calls[i].data = ev.reported
       /\ ev.calls[j].data = ev.reported

\* C17 as claimed: with an error hook configured, reportError invokes the
\* hook once with the error and does nothing else: no transport of the
\* host is invoked and nothing is written to the console.
C17_HookOnly ==
  (Len(ev.reported) > 0 /\ options[ev.a].reportErrorFn # Undefined) =>
    /\ ev.hooked = ev.reported
    /\ ev.warned = <<>>
    /\ ev.list = <<>>
    /\ ev.calls = <<>>

\* The last operation was a send whose fetch ended with an ok response.
SendOk == SendEnded /\ ev.outcome.kind = "response" /\ ev.outcome.ok

\* C18: when the destination answers ok, the promise of send is fulfilled
\* with the body of the response and reportError is not called.
C18_SuccessReturnsBody ==
  SendOk =>
    /\ ev.promise = "fulfilled"
    /\ ev.value = ev.outcome.body
    /\ ev.reported = <<>>
    /\ ev.tiers = <<>> /\ ev.warned = <<>> /\ ev.calls = <<>>

\* C18 witness: an ok response whose body is what send gave back.
C18_Witness ==
  /\ SendOk
  /\ ev.value = Str("receipt")
  /\ ev.reported = <<>>

\* C19: the constructor succeeds when the endpoint is a non-empty string
\* and raises the error 'webhook is required.' when it is empty or absent
\* (an absent options object is one with nothing set); when it raises
\* there is no adapter and the host given to it has no new entry.
C19_EndpointRequired ==
  ev.op = "constructor" =>
    /\ ev.raised <=> options[ev.a].webhook \in {Undefined, ""}
    /\ ev.raised =>
         /\ ev.value = Err(<<"webhook is required.">>)
         /\ ~adapter[ev.a].exists
         /\ "discord" \notin KeysOf(registry)
         /\ bindTransportMethod(ev.a) \notin Registered
    /\ ~ev.raised =>
         /\ adapter[ev.a].exists
         /\ adapter[ev.a].webhook = options[ev.a].webhook

\* C19 witness: a constructor given a host and an empty endpoint raised
\* and left the host with its console transport alone.
C19_Witness ==
  /\ ev.op = "constructor"
  /\ ev.raised
  /\ options[ev.a].webhook = ""
  /\ options[ev.a].electronLog = "host"
  /\ KeysOf(registry) = {"console"}

\* C21: send calls fetch once, with the configured endpoint, the method
\* POST, the header Content-Type: application/json and, as the body, the
\* JSON text of the payload it was given: strings, numbers and null as
\* they are, a Date as its ISO text, a property that is undefined left
\* out.
C21_PostJson ==
  ev.op = "sendCall" =>
    /\ Len(ev.requests) = 1
    /\ ev.requests[1].url = options[ev.a].webhook
    /\ ev.requests[1].method = "POST"
    /\ ev.requests[1].headers = [ContentType |-> "application/json"]
    /\ ev.requests[1].body = JSONstringify(ev.payload)
    /\ LET e == ev.payload.embeds[1]
           b == ev.requests[1].body.embeds[1]
       IN  /\ ev.requests[1].body.username = ev.payload.username
           /\ ev.requests[1].body.avatar_url = ev.payload.avatar_url
           /\ Len(ev.requests[1].body.embeds) = 1
           /\ b.description = e.description
           /\ b.thumbnail = e.thumbnail
           /\ b.color = IF e.color = Undef THEN [t |-> "omitted"] ELSE e.color
           /\ b.fields[1] = e.fields[1]
           /\ b.fields[2].value =
                IF e.fields[2].value.t = "Date"
                THEN Str(e.fields[2].value.v) ELSE e.fields[2].value

\* C21 witness: send was given a payload with a Date and no colour, and
\* its request carries the date as text and leaves the colour out.
C21_Witness ==
  /\ ev.op = "sendCall"
  /\ ev.payload.embeds[1].fields[2].value = DateObj(IsoText)
  /\ ev.payload.embeds[1].color = Undef
  /\ ev.requests[1].body.embeds[1].fields[2].value = Str(IsoText)
  /\ ev.requests[1].method = "POST"
  /\ inflight[Len(inflight)] = ev.requests[1]

\* C22 as claimed: no delivery is made by an adapter because of a failure
\* of its own, directly or through the reports of other adapters, so that
\* one failure leads to finitely many deliveries and reports.
C22_NoRetrigger ==
  \A i \in 1..Len(inflight) : inflight[i].a \notin inflight[i].causes

\* C23 as claimed: a record the handle has processed holds the data it
\* held before, so every transport the host invokes with one record, after
\* the adapter's handle as before it, finds the same data in it.
C23_RecordUnchanged ==
  \A i \in 1..Len(ev.calls) : ev.calls[i].data = ev.calls[1].data

\* C24: whatever happens while a delivery is pending (writes of the
\* level, the name or the thumbnail, other deliveries begun or ended), its
\* request stays as it was made and is what the delivery has sent when it
\* ends; and no step of a delivery changes an adapter or the registry.
C24_InflightInsulated ==
  [][/\ \A i \in 1..Len(inflight) :
          \/ \E j \in 1..Len(inflight') : inflight'[j] = inflight[i]
          \/ ev'.op = "send" /\ ev'.sent = inflight[i]
     /\ ev'.op \in {"transport", "sendCall", "send"} =>
          /\ adapter' = adapter
          /\ registry' = registry]_vars

\* C24 witness: a delivery ended after the name and the thumbnail had
\* been rewritten and the level changed; it has sent the name and the
\* thumbnail of the time it was made.
C24_Witness ==
  /\ ev.op = "send"
  /\ ev.sent # Undef
  /\ ev.sent.body.username = Str("App")
  /\ ev.sent.body.embeds[1].thumbnail.url = Null
  /\ adapter[ev.a].username = Str("new")
  /\ adapter[ev.a].thumb = Str("new")
  /\ adapter[ev.a].level = "warn"

\* The function registered at the key discord.
Discord == RegGet(registry, "discord")
\* The function at the key discord was put there by adapter a.
RegisteredBy(a) ==
  /\ adapter[a].exists
  /\ Discord # Undef
  /\ Discord.kind = "discord"
  /\ Discord.of = a

\* C25: an adapter has one handle, the function made at construction:
\* every getFactory returns it, attachTo stores it at the key discord, and
\* so the function an adapter has registered is the one its reportError
\* takes out of the list it passes on.
C25_HandleStable ==
  /\ \A a \in Adapters : adapter[a].exists => Own(a) = bindTransportMethod(a)
  /\ ev.op = "getFactory" => ev.value = Own(ev.a)
  /\ ev.op = "attachTo" => Discord = Own(ev.a)
  /\ \A a \in Adapters : RegisteredBy(a) => Discord = Own(a)
  /\ (Rebroadcast /\ RegisteredBy(ev.a)) =>
       \A i \in 1..Len(ev.list) : ev.list[i] # Discord

\* C25 witness: the second adapter, constructed without a host, was
\* attached and asked for its handle, and then reported an error: the
\* list passed on holds the console transport and not the function at the
\* key discord.
C25_Witness ==
  /\ ev.op = "reportError"
  /\ ev.a = "a2"
  /\ Rebroadcast
  /\ obtained["a2"] # Undefined
  /\ Discord = Own("a2")
  /\ ev.list = <<ConsoleT>>

\* C26: the record reportError hands to the host for the other transports
\* has the level warn and, as its data, the one error reportError was
\* given, as it was given.
C26_WarnRecordOfError ==
  Rebroadcast =>
    /\ ev.record # Undef
    /\ ev.record.level = "warn"
    /\ Len(ev.reported) = 1
    /\ ev.record.data = ev.reported
    /\ Len(ev.calls) > 0 => ev.calls[1].data = ev.reported

\* C26 witness: reportError was called with the error fail on an adapter
\* registered beside a custom transport, which was invoked with a record
\* whose data is that error alone.
C26_Witness ==
  /\ ev.op = "reportError"
  /\ Rebroadcast
  /\ ev.reported = <<Err(<<"fail">>)>>
  /\ ev.record = [data |-> <<Err(<<"fail">>)>>, level |-> "warn",
                  date |-> Undef]
  /\ Discord = Own(ev.a)
  /\ \E i \in 1..Len(ev.calls) :
       ev.calls[i].fn = CustomT /\ ev.calls[i].data = ev.reported

====
